---------------------------- MODULE Spec2Model ----------------------------
(***************************************************************************)
(* The chat back ends of salonchat.                                        *)
(*                                                                         *)
(* The repository holds two servers for the same HTTP surface:             *)
(*   - the Cloudflare Worker (src/unnamed/part_010, salon-chat-backend.js):*)
(*     sessions in the D1 table chat_sessions, the active model in the     *)
(*     table settings, retrieval through Workers AI + Vectorize + D1;      *)
(*   - the Express controller (src/unnamed/part_001, chatController.ts):   *)
(*     sessions in an in-memory Map, completion through OpenRouter.        *)
(* The variable impl says which one is deployed; it never changes.         *)
(*                                                                         *)
(* A POST /api/chat is a process occupying a request slot; its steps are   *)
(* the stretches of the handler between the awaits at which other requests *)
(* can run.  The other handlers have one await on shared state and are one *)
(* step each.  External services (D1, Workers AI, Vectorize, OpenAI,       *)
(* OpenRouter) answer or fail nondeterministically.                        *)
(*                                                                         *)
(* Data abstraction: text the code never inspects beyond truthiness, type  *)
(* and trim() is drawn from small sets; a completion's text is the symbol  *)
(* <<"reply", model>>.  crypto.randomUUID()/uuidv4() return ids never seen *)
(* before (the n-th call returns <<"uuid", n>>); ids a client makes up are *)
(* <<"client", k>>.  Timestamps are written by both servers and read by no *)
(* branch of either; they are left out.                                    *)
(***************************************************************************)
EXTENDS Integers, Sequences, FiniteSets, TLC

\* ------------------------------------------------------------- bounds
\* POST /api/chat requests received over a run, after the earlier exchange
\* that the run may start from.
MaxPosts == 1
\* Request slots: POST handlers that can be in flight at the same time.
Slots == {1}
\* Request slots of the specification of overlapping POST handlers.
OverlapSlots == {1, 2}
\* Ids a client can make up without having got them from the server.
ClientIds == {<<"client", 1>>}
\* POST /api/setup requests received over a run of the vectorize-setup Worker.
MaxSetups == 2
\* Entries of the services array of one POST /api/setup.
MaxServices == 2
\* Calls of sendMessage and clearSession made on the client over a run.
MaxCalls == 3
\* Calls of the client that can be awaiting their response at the same time.
CallSlots == {1, 2}

\* ---------------------------------------------------------- constants
DEFAULT_MODEL == "@cf/meta/llama-3.1-8b-instruct"
OPENAI_MODEL == "gpt-3.5-turbo"
OPENROUTER_MODEL == "openai/gpt-3.5-turbo"
MAX_RELEVANT_DOCS == 3
\* Models a client can name in PUT /api/model or as a POST's override.
OtherModel == "@cf/mistral/mistral-7b-instruct-v0.1"
Models == {DEFAULT_MODEL, OtherModel}
\* undefined / null / "" for a model: all falsy in `if (!currentModel)`.
NoModel == ""

\* The catalog (table salon_services) and the ids held by the vector index:
\* one vector has no catalog row.
CatalogIds == {"svc-1"}
DanglingIds == {"svc-gone"}
IndexIds == CatalogIds \cup DanglingIds
MOCK_SERVICE == "mock-1"

\* Fixed replies of the Worker and of the Express controller.
MOCK_REPLY == <<"I'd be happy to help you find the perfect hair service">>
GREETING_REPLY == <<"As an expert hairstylist at Apotheca Salon, I'd love to help">>
APOLOGY_REPLY == <<"I'm sorry, I'm having trouble processing your request right now">>
SORRY_REPLY == <<"Sorry, I couldn't generate a response.">>
EMPTY_TEXT == <<>>
Reply(model) == <<"reply", model>>

\* ------------------------------------------------------------ request data
\* A JSON value sent as `message`: absent, a non-zero number, or a string (a
\* sequence of characters).
Strings == {<<>>, <<" ">>, <<" ", "b">>}
MessageValues ==
    {[type |-> "undefined", text |-> <<>>], [type |-> "number", text |-> <<>>]}
        \cup {[type |-> "string", text |-> s] : s \in Strings}

\* A JSON value sent as `sessionId`: absent, null, "" or a non-empty string.
UNDEFINED_ID == <<"undefined", 0>>
NULL_ID == <<"null", 0>>
EMPTY_ID == <<"", 0>>
AbsentIds == {UNDEFINED_ID, NULL_ID, EMPTY_ID}

\* `!x` for a sessionId value.
Falsy(id) == id \in AbsentIds

\* `!message || typeof message !== "string"` (Worker).
MessageRejected(m) == m.type # "string" \/ m.text = <<>>

\* handleChatMessage, lines 163-170 and 259-268: the status for a message that
\* is not accepted.  The log line ahead of that test calls message.substring,
\* which a truthy value that is not a string (type "number") does not have:
\* the TypeError goes to the outer catch.
WorkerRejectStatus(m) == IF m.type = "number" THEN 500 ELSE 400

\* String.prototype.trim(): drop leading and trailing whitespace.
RECURSIVE TrimStart(_)
TrimStart(s) == IF s # <<>> /\ Head(s) = " " THEN TrimStart(Tail(s)) ELSE s
RECURSIVE TrimEnd(_)
TrimEnd(s) ==
    IF s # <<>> /\ s[Len(s)] = " " THEN TrimEnd(SubSeq(s, 1, Len(s) - 1)) ELSE s
Trim(s) == TrimEnd(TrimStart(s))

\* `!message || typeof message !== 'string' || !message.trim()` (Express).
MessageRejectedExpress(m) == m.type # "string" \/ m.text = <<>> \/ Trim(m.text) = <<>>

\* --------------------------------------------------------------- turns
Turn(role, content) == [role |-> role, content |-> content]

\* JSON.stringify of an array of {role, content} objects, as the token
\* sequence of the text; JSON.parse is its inverse on such text.
RECURSIVE JSONstringifyItems(_)
JSONstringifyItems(h) ==
    IF h = <<>> THEN <<>>
    ELSE <<<<"{">>, <<"role">>, <<h[1].role>>, <<"content">>, h[1].content, <<"}">>>>
             \o JSONstringifyItems(Tail(h))
JSONstringify(h) == <<<<"[">>>> \o JSONstringifyItems(h) \o <<<<"]">>>>

RECURSIVE JSONparseItems(_)
JSONparseItems(t) ==
    IF Len(t) < 6 THEN <<>>
    ELSE <<Turn(t[3][1], t[5])>> \o JSONparseItems(SubSeq(t, 7, Len(t)))
JSONparse(text) == JSONparseItems(SubSeq(text, 2, Len(text) - 1))

\* --------------------------------------------------------------- state
VARIABLES
    impl,           \* "worker" | "express": the deployed server
    env,            \* the Worker's env bindings / the Express config
    chat_sessions,  \* Worker, D1: the rows [id, messages] of chat_sessions
    settings,       \* Worker, D1: the rows [key, value] of settings
    sessions,       \* Express: the entries [id, messages] of the Map sessions
    reqs,           \* slot -> the POST handler running in it
    uuids,          \* number of ids generated so far
    posts,          \* POST requests received so far
    issued,         \* every id returned in a 200 response or stored so far
    salon_services, \* setup Worker, D1: the rows [id, name] of salon_services
    vector_index,   \* setup Worker, Vectorize: the ids that have a vector
    setup,          \* setup Worker: the POST /api/setup handler
    client,         \* browser: the CloudflareChatService object and localStorage
    pending         \* browser: slot -> the sendMessage / clearSession call in it

\* The state of the vectorize-setup Worker, which the chat servers leave alone.
setupVars == <<salon_services, vector_index, setup>>

\* The state of the browser client, which the servers leave alone.
clientVars == <<client, pending>>

vars == <<impl, env, chat_sessions, settings, sessions, reqs, uuids, posts,
          issued, salon_services, vector_index, setup, client, pending>>

NO_ID == <<"none", 0>>

\* A slot with no handler in it.  The fields are the handler's locals (the
\* names are the Worker's), its response once pc = "done", and a record of
\* what happened: calls, existed, before, raced.
IdleReq ==
    [pc |-> "idle",
     message |-> [type |-> "undefined", text |-> <<>>],
     requested |-> UNDEFINED_ID,   \* requestData.sessionId / sessionToken
     model |-> NoModel,            \* requestData.model
     sessionId |-> NO_ID,          \* sessionId / currentSessionToken
     isNewSession |-> FALSE,
     chatHistory |-> <<>>,         \* the local array / formattedMessages
     detached |-> FALSE,           \* Express: the session object held is no
                                   \* longer the one in the Map
     matches |-> {},               \* ids the vector query returned
     relevantServices |-> {},      \* ids of the rows used as context
     aiResponse |-> <<>>,
     calls |-> <<>>,               \* external calls made, in order
     status |-> 0,                 \* the response status, once pc = "done"
     existed |-> FALSE,            \* the session was stored when the request came
     before |-> <<>>,              \* its stored turns then
     raced |-> FALSE]              \* another handler wrote the session meanwhile

\* The POST /api/setup handler when no request is being served.  services,
\* i and results are setupDatabase's locals; status is the response status
\* once pc = "done"; received counts the requests so far.
IdleSetup ==
    [pc |-> "idle", services |-> <<>>, i |-> 0, results |-> <<>>, status |-> 0,
     received |-> 0]

\* localStorage without the item 'salon-chat-session'.
NoItem == [sessionId |-> NO_ID, messages |-> <<>>]

\* No CloudflareChatService has been constructed.  made counts the calls of
\* sendMessage and clearSession so far.
NoClient == [sessionId |-> NO_ID, messages |-> <<>>, storage |-> NoItem, made |-> 0]

\* A slot with no call of the client in it.  userId is the id of the user
\* message a sendMessage pushed, was the session id when a clearSession was
\* called; deleted and saved say how its DELETE and its saveSession ended.
IdleCall ==
    [pc |-> "idle", kind |-> "none", userId |-> NO_ID, was |-> NO_ID,
     deleted |-> "skipped", saved |-> FALSE]

\* One external call, as a spy on the provider would record it.
Call(svc, model, ok, arg) == [svc |-> svc, model |-> model, ok |-> ok, arg |-> arg]

InFlight == {r \in DOMAIN reqs : reqs[r].pc \notin {"idle", "done"}}

\* crypto.randomUUID() / uuidv4(): the (n+1)-th id generated.
randomUUID(n) == <<"uuid", n + 1>>

\* Ids a client can send: none, a made-up one, or one it has seen or that is stored.
RequestIds == AbsentIds \cup ClientIds \cup issued
\* Ids a client can put in the path of GET/DELETE /api/chat/{id}.
PathIds == ClientIds \cup issued

\* ------------------------------------------------------- keyed rows
\* A table with a primary key (or a Map) is the set of its rows.
HasRow(table, id) == \E row \in table : row.id = id
RowOf(table, id) == CHOOSE row \in table : row.id = id
\* A faulty write, which keeps a row there is and puts the new text after it.
UpsertAppending(table, id, messages) ==
    {row \in table : row.id # id}
        \cup {[id |-> id,
               messages |-> IF \E row \in table : row.id = id
                            THEN (CHOOSE row \in table : row.id = id).messages
                                     \o messages
                            ELSE messages]}

\* INSERT ... ON CONFLICT (id) DO UPDATE / Map.set
Upsert(table, id, messages) ==
    {row \in table : row.id # id} \cup {[id |-> id, messages |-> messages]}
\* DELETE FROM ... WHERE id = ?
DeleteRow(table, id) == {row \in table : row.id # id}

\* The value of settings.current_model, NoModel when there is no such row.
SettingValue(rows) ==
    IF \E row \in rows : row.key = "current_model"
    THEN (CHOOSE row \in rows : row.key = "current_model").value
    ELSE NoModel

\* The turns stored for a session of the Worker, <<>> when it has no row.
StoredTurns(table, id) ==
    IF HasRow(table, id) THEN JSONparse(RowOf(table, id).messages) ELSE <<>>

\* The messages of a session of the Express Map, <<>> when there is none.
SessionMessages(map, id) == IF HasRow(map, id) THEN RowOf(map, id).messages ELSE <<>>

\* ------------------------------------------------------------- Init
\* A run starts from an empty store, or from the store left by one earlier
\* exchange under a server-generated id (user " b", and a provider that
\* answered without text).
EarlierWorker ==
    <<Turn("user", <<" ", "b">>), Turn("assistant", GREETING_REPLY)>>
EarlierExpress ==
    <<Turn("user", <<"b">>), Turn("assistant", SORRY_REPLY)>>

Init ==
    /\ impl \in {"worker", "express"}
    /\ env \in [development : BOOLEAN, OPENAI_API_KEY : BOOLEAN,
                OPENROUTER_API_KEY : BOOLEAN]
    /\ impl = "worker" => env.OPENROUTER_API_KEY = FALSE
    /\ impl = "express" => env.development = FALSE /\ env.OPENAI_API_KEY = FALSE
    /\ settings = {}
    /\ reqs = [r \in Slots |-> IdleReq]
    /\ posts = 0
    /\ \E earlier \in IF impl = "express" /\ ~env.OPENROUTER_API_KEY
                     THEN {FALSE} ELSE BOOLEAN :
         /\ uuids = IF earlier THEN 1 ELSE 0
         /\ issued = IF earlier THEN {randomUUID(0)} ELSE {}
         /\ chat_sessions =
               IF earlier /\ impl = "worker"
               THEN {[id |-> randomUUID(0), messages |-> JSONstringify(EarlierWorker)]}
               ELSE {}
         /\ sessions =
               IF earlier /\ impl = "express"
               THEN {[id |-> randomUUID(0), messages |-> EarlierExpress]}
               ELSE {}
    /\ salon_services = {}
    /\ vector_index = {}
    /\ setup = IdleSetup
    /\ client = NoClient
    /\ pending = [c \in CallSlots |-> IdleCall]

\* =========================================================== the Worker
\* A faulty variant, which generates an id only when the field is absent and
\* takes null and "" for ids.
ResolveSessionIdAbsentOnly(requested, n) ==
    IF requested = UNDEFINED_ID THEN randomUUID(n) ELSE requested

\* The requests of a run: MaxPosts for each slot there is.
PostLimit == MaxPosts * Cardinality(DOMAIN reqs)

\* handleChatMessage, lines 154-161: the id the request runs under.
ResolveSessionId(requested, n) == IF Falsy(requested) THEN randomUUID(n) ELSE requested

\* handleChatMessage, line 244.
IsNewSession(sessionId, requested) == sessionId # requested

\* handleChatMessage up to its first await on the store: body, id, validation.
\* requestData.model is first read in generateAIResponse; its value is drawn
\* there.
WorkerReceive(r) ==
    /\ impl = "worker"
    /\ reqs[r].pc = "idle"
    /\ posts < PostLimit
    /\ posts' = posts + 1
    /\ \/ \* empty body, or a body that is not JSON: 400
          /\ reqs' = [reqs EXCEPT ![r] = [IdleReq EXCEPT !.pc = "done", !.status = 400]]
          /\ UNCHANGED uuids
       \/ \E message \in MessageValues, requested \in RequestIds :
            LET sessionId == ResolveSessionId(requested, uuids)
            IN  /\ uuids' = IF Falsy(requested) THEN uuids + 1 ELSE uuids
                /\ reqs' = [reqs EXCEPT ![r] =
                      IF MessageRejected(message)
                      THEN [IdleReq EXCEPT !.pc = "done",
                                           !.status = WorkerRejectStatus(message),
                                           !.message = message,
                                           !.requested = requested]
                      ELSE [IdleReq EXCEPT
                              !.pc = "read",
                              !.message = message,
                              !.requested = requested,
                              !.sessionId = sessionId,
                              !.existed = HasRow(chat_sessions, sessionId),
                              !.before = StoredTurns(chat_sessions, sessionId)]]
    /\ UNCHANGED <<setupVars, clientVars>>
    /\ UNCHANGED <<impl, env, chat_sessions, settings, sessions, issued>>

\* handleChatMessage, lines 175-204: the history read from the row.  A read
\* that throws, no row, or falsy messages all leave it empty.
ReadHistory(table, id, readOk) ==
    IF readOk /\ HasRow(table, id) /\ RowOf(table, id).messages # <<>>
    THEN JSONparse(RowOf(table, id).messages)
    ELSE <<>>

\* handleChatMessage, lines 175-208: read the history, push the user turn.
WorkerRead(r) ==
    /\ impl = "worker"
    /\ reqs[r].pc = "read"
    /\ \E readOk \in BOOLEAN :
         reqs' = [reqs EXCEPT ![r].pc = "search",
                              ![r].chatHistory =
                                  Append(ReadHistory(chat_sessions, reqs[r].sessionId, readOk),
                                         Turn("user", reqs[r].message.text))]
    /\ UNCHANGED <<setupVars, clientVars>>
    /\ UNCHANGED <<impl, env, chat_sessions, settings, sessions, uuids, posts,
                   issued>>

\* generateEmbedding: the vector handed back for each outcome of AI.run.
\* A throw is caught there: a random vector in development, else a zero one.
\* "undefined" is a response whose data[0] is undefined.
EmbedOutcomes == {"vector", "throws", "undefined"}
generateEmbedding(outcome, development) ==
    CASE outcome = "vector" -> "vector"
      [] outcome = "throws" -> IF development THEN "random" ELSE "zero"
      [] OTHER -> "undefined"

\* A faulty variant, which asks for the embedding again when AI.run failed.
EmbedCallsRetried(outcome) ==
    IF outcome = "vector" THEN <<Call("embed", "", TRUE, outcome)>>
    ELSE <<Call("embed", "", FALSE, outcome), Call("embed", "", FALSE, outcome)>>

\* generateEmbedding: the calls of AI.run it makes, one whatever the outcome.
EmbedCalls(outcome) == <<Call("embed", "", outcome = "vector", outcome)>>

\* What SALON_VECTORIZE.query can answer: it throws, or returns at most topK ids.
VectorOutcomes ==
    {[ok |-> FALSE, matches |-> {}]}
        \cup {[ok |-> TRUE, matches |-> m] :
                m \in {x \in SUBSET IndexIds : Cardinality(x) <= MAX_RELEVANT_DOCS}}

\* A faulty lookup, which answers with a record for every id asked.
SelectServicesUnfiltered(ids) == ids
\* SELECT * FROM salon_services WHERE id IN (...): the rows that exist.
SelectServices(ids) == ids \cap CatalogIds

\* The mock row returned on a vector or catalog failure in development.
MockOrNone(development) == IF development THEN {MOCK_SERVICE} ELSE {}

\* searchRelevantServices: every way it can end, as the rows it returns, the
\* ids the vector query returned, and the calls it made.
searchRelevantServices(development) ==
    UNION {
      LET embedding == generateEmbedding(e, development)
          embedCalls == EmbedCalls(e)
      IN  IF embedding = "undefined"
          THEN {[services |-> {}, matches |-> {}, calls |-> embedCalls]}
          ELSE UNION {
            LET queryCall == Call("vectorize", "", q.ok, embedding)
            IN  IF ~q.ok
                THEN {[services |-> MockOrNone(development), matches |-> {},
                       calls |-> embedCalls \o <<queryCall>>]}
                ELSE IF q.matches = {}
                THEN {[services |-> {}, matches |-> {},
                       calls |-> embedCalls \o <<queryCall>>]}
                ELSE {[services |-> IF catalogOk THEN SelectServices(q.matches)
                                    ELSE MockOrNone(development),
                       matches |-> q.matches,
                       calls |-> embedCalls \o
                                   <<queryCall, Call("catalog", "", catalogOk, "")>>] :
                        catalogOk \in BOOLEAN}
            : q \in VectorOutcomes}
      : e \in EmbedOutcomes}

\* handleChatMessage, lines 210-212.
WorkerSearch(r) ==
    /\ impl = "worker"
    /\ reqs[r].pc = "search"
    /\ \E found \in searchRelevantServices(env.development) :
         reqs' = [reqs EXCEPT ![r].pc = "generate",
                              ![r].relevantServices = found.services,
                              ![r].matches = found.matches,
                              ![r].calls = found.calls]
    /\ UNCHANGED <<setupVars, clientVars>>
    /\ UNCHANGED <<impl, env, chat_sessions, settings, sessions, uuids, posts,
                   issued>>

\* generateAIResponse, lines 464-548: the system turn (the preamble and the
\* context block, one entry per service row, or the context-free variant)
\* followed by the history.
ServiceOrder == <<"mock-1", "svc-1", "svc-gone">>
ContextBlock(services) ==
    IF services = {} THEN <<"no-specific-information">>
    ELSE SelectSeq(ServiceOrder, LAMBDA id : id \in services)
PromptMessages(services, history) ==
    <<Turn("system", <<"preamble">> \o ContextBlock(services))>> \o history

\* generateAIResponse, lines 552-572: the model of the first attempt.
CurrentModel(model, rows, settingsOk) ==
    IF model # NoModel THEN model
    ELSE IF settingsOk /\ SettingValue(rows) # NoModel THEN SettingValue(rows)
    ELSE DEFAULT_MODEL

\* What a completion provider can answer: text, an empty response, or a failure.
CompletionOutcomes == {"text", "empty", "fails"}
CompletionText(outcome, model) == IF outcome = "text" THEN Reply(model) ELSE EMPTY_TEXT

\* The reply when every attempt failed: the mock reply in development, else
\* the error is thrown to the outer catch of generateAIResponse (line 686).
AllFailed(development) == IF development THEN MOCK_REPLY ELSE APOLOGY_REPLY

\* A faulty variant, which retries whatever the model of the failed attempt.
RetryAlways(currentModel) == TRUE

\* generateAIResponse, line 653: whether a failed attempt is retried.
RetryWithDefault(currentModel) == currentModel # DEFAULT_MODEL

\* generateAIResponse, line 685.
OrGreeting(aiResponse) == IF aiResponse = EMPTY_TEXT THEN GREETING_REPLY ELSE aiResponse

\* generateAIResponse, lines 586-623: the OpenAI branch.
CompletionsOpenAI(messages, development) ==
    {[aiResponse |-> IF o = "fails" THEN AllFailed(development)
                     ELSE OrGreeting(CompletionText(o, OPENAI_MODEL)),
      calls |-> <<Call("complete", OPENAI_MODEL, o # "fails", messages)>>] :
       o \in CompletionOutcomes}

\* generateAIResponse, lines 624-683: the Workers AI branch.
CompletionsWorkersAI(currentModel, messages, development) ==
    UNION {
      LET first == Call("complete", currentModel, o1 # "fails", messages)
      IN  IF o1 # "fails"
          THEN {[aiResponse |-> OrGreeting(CompletionText(o1, currentModel)),
                 calls |-> <<first>>]}
          ELSE IF RetryWithDefault(currentModel)
          THEN {[aiResponse |-> IF o2 = "fails" THEN AllFailed(development)
                                ELSE OrGreeting(CompletionText(o2, DEFAULT_MODEL)),
                 calls |-> <<first,
                             Call("complete", DEFAULT_MODEL, o2 # "fails", messages)>>] :
                  o2 \in CompletionOutcomes}
          ELSE {[aiResponse |-> AllFailed(development), calls |-> <<first>>]}
      : o1 \in CompletionOutcomes}

\* generateAIResponse, lines 586-690: every way the completion can end, as
\* the reply and the completion calls made.
Completions(currentModel, messages, development, openai) ==
    IF openai THEN CompletionsOpenAI(messages, development)
    ELSE CompletionsWorkersAI(currentModel, messages, development)

\* A handler that starts over from the search when every model failed.
WorkerGenerateAgain(r) ==
    /\ impl = "worker"
    /\ reqs[r].pc = "generate"
    /\ \E model \in {NoModel} \cup Models, settingsOk \in BOOLEAN :
         LET currentModel == CurrentModel(model, settings, settingsOk)
             messages == PromptMessages(reqs[r].relevantServices, reqs[r].chatHistory)
         IN  \E done \in Completions(currentModel, messages, env.development,
                                     env.OPENAI_API_KEY) :
               IF \E i \in 1..Len(done.calls) : done.calls[i].ok
               THEN reqs' = [reqs EXCEPT ![r].pc = "write",
                                         ![r].model = model,
                                         ![r].aiResponse = done.aiResponse,
                                         ![r].relevantServices = {},
                                         ![r].matches = {},
                                         ![r].calls = done.calls]
               ELSE reqs' = [reqs EXCEPT ![r].pc = "search",
                                         ![r].relevantServices = {},
                                         ![r].matches = {},
                                         ![r].calls = <<>>]
    /\ UNCHANGED <<setupVars, clientVars>>
    /\ UNCHANGED <<impl, env, chat_sessions, settings, sessions, uuids, posts,
                   issued>>

\* handleChatMessage, lines 214-216: generateAIResponse.  What the search
\* found has gone into the prompt and is not kept.
WorkerGenerate(r) ==
    /\ impl = "worker"
    /\ reqs[r].pc = "generate"
    /\ \E model \in {NoModel} \cup Models, settingsOk \in BOOLEAN :
         LET currentModel == CurrentModel(model, settings, settingsOk)
             messages == PromptMessages(reqs[r].relevantServices, reqs[r].chatHistory)
         IN  \E done \in Completions(currentModel, messages, env.development,
                                     env.OPENAI_API_KEY) :
               reqs' = [reqs EXCEPT ![r].pc = "write",
                                    ![r].model = model,
                                    ![r].aiResponse = done.aiResponse,
                                    ![r].relevantServices = {},
                                    ![r].matches = {},
                                    ![r].calls = done.calls]
    /\ UNCHANGED <<setupVars, clientVars>>
    /\ UNCHANGED <<impl, env, chat_sessions, settings, sessions, uuids, posts,
                   issued>>

\* handleChatMessage, lines 210-216: the replies generateAIResponse can
\* return for what searchRelevantServices can find.
AnswerReplies(history, rows, development, openai) ==
    UNION {
      UNION {
        {done.aiResponse :
           done \in Completions(CurrentModel(model, rows, settingsOk),
                                PromptMessages(found.services, history),
                                development, openai)}
        : model \in {NoModel} \cup Models, settingsOk \in BOOLEAN}
      : found \in searchRelevantServices(development)}

\* handleChatMessage, lines 210-216, as one step: searchRelevantServices and
\* generateAIResponse read and write nothing of chat_sessions, and what they
\* leave in the handler is the reply.  The calls are not recorded.
WorkerAnswer(r) ==
    /\ impl = "worker"
    /\ reqs[r].pc = "search"
    /\ \E aiResponse \in AnswerReplies(reqs[r].chatHistory, settings,
                                       env.development, env.OPENAI_API_KEY) :
         reqs' = [reqs EXCEPT ![r].pc = "write", ![r].aiResponse = aiResponse]
    /\ UNCHANGED <<setupVars, clientVars>>
    /\ UNCHANGED <<impl, env, chat_sessions, settings, sessions, uuids, posts,
                   issued>>

\* The other requests on a session are marked when a handler writes it.
MarkRaced(id, r) ==
    [s \in DOMAIN reqs |-> IF s # r /\ reqs[s].sessionId = id /\ reqs[s].pc # "idle"
                     THEN [reqs[s] EXCEPT !.raced = TRUE] ELSE reqs[s]]

\* The calls as kept once the response is out: without their arguments.
Summary(calls) == [i \in 1..Len(calls) |-> [calls[i] EXCEPT !.arg = <<>>]]

\* A handler that answers 500 when the upsert throws.
persistStatusSurfaced(writeOk) == IF writeOk THEN 200 ELSE 500

\* handleChatMessage, lines 222-258: the status of the response after the
\* upsert; its catch logs the error and goes on.
persistStatus(writeOk) == 200

\* handleChatMessage, lines 218-258: push the reply, upsert the row (an error
\* is logged and swallowed), respond 200.
WorkerWrite(r) ==
    /\ impl = "worker"
    /\ reqs[r].pc = "write"
    /\ LET chatHistory == Append(reqs[r].chatHistory,
                                 Turn("assistant", reqs[r].aiResponse))
           sessionId == reqs[r].sessionId
       IN  /\ \E writeOk \in BOOLEAN :
                /\ chat_sessions' = IF writeOk
                                    THEN Upsert(chat_sessions, sessionId,
                                                JSONstringify(chatHistory))
                                    ELSE chat_sessions
                /\ reqs' = [MarkRaced(sessionId, r) EXCEPT
                              ![r] = [reqs[r] EXCEPT
                                        !.pc = "done",
                                        !.status = persistStatus(writeOk),
                                        !.chatHistory = chatHistory,
                                        !.model = NoModel,
                                        !.calls = Summary(reqs[r].calls),
                                        !.isNewSession =
                                            IsNewSession(sessionId, reqs[r].requested)]]
           /\ issued' = issued \cup {sessionId}
    /\ UNCHANGED <<setupVars, clientVars>>
    /\ UNCHANGED <<impl, env, settings, sessions, uuids, posts>>

\* The response has been sent; the slot is free again.
Respond(r) ==
    /\ reqs[r].pc = "done"
    /\ reqs' = [reqs EXCEPT ![r] = IdleReq]
    /\ UNCHANGED <<setupVars, clientVars>>
    /\ UNCHANGED <<impl, env, chat_sessions, settings, sessions, uuids, posts,
                   issued>>

\* getChatHistory (Worker): the response to GET /api/chat/{id}.
getChatHistory(table, id, readOk) ==
    IF ~readOk
    THEN [status |-> 500, sessionId |-> NO_ID, messages |-> <<>>]
    ELSE IF ~HasRow(table, id) \/ RowOf(table, id).messages = <<>>
    THEN [status |-> 404, sessionId |-> NO_ID, messages |-> <<>>]
    ELSE [status |-> 200, sessionId |-> id,
          messages |-> JSONparse(RowOf(table, id).messages)]

\* GET /api/chat/{id} changes nothing.
WorkerGetHistory ==
    /\ impl = "worker"
    /\ \E id \in PathIds, readOk \in BOOLEAN :
         getChatHistory(chat_sessions, id, readOk).status \in {200, 404, 500}
    /\ UNCHANGED vars

\* clearChatSession (Worker): the status of DELETE /api/chat/{id}.
clearChatSessionStatus(deleteOk) == IF deleteOk THEN 200 ELSE 500

\* clearChatSession (Worker): the row is deleted, or the delete throws.
WorkerClearId(id, deleteOk) ==
    /\ impl = "worker"
    /\ chat_sessions' = IF deleteOk THEN DeleteRow(chat_sessions, id)
                        ELSE chat_sessions
    /\ reqs' = IF deleteOk THEN MarkRaced(id, 0) ELSE reqs
    /\ UNCHANGED <<setupVars, clientVars>>
    /\ UNCHANGED <<impl, env, settings, sessions, uuids, posts, issued>>

\* DELETE /api/chat/{id}
WorkerClear == \E id \in PathIds, deleteOk \in BOOLEAN : WorkerClearId(id, deleteOk)

\* getCurrentModel: the model in the response to GET /api/model.
getCurrentModel(rows, readOk) ==
    IF readOk /\ SettingValue(rows) # NoModel THEN SettingValue(rows) ELSE DEFAULT_MODEL

\* GET /api/model changes nothing.
WorkerGetModel ==
    /\ impl = "worker"
    /\ \E readOk \in BOOLEAN : getCurrentModel(settings, readOk) \in Models
    /\ UNCHANGED vars

\* setModel: the status of PUT /api/model, and the rows of settings after it.
setModelStatus(model, writeOk) ==
    IF model = NoModel THEN 400 ELSE IF writeOk THEN 200 ELSE 500
setModel(rows, model, writeOk) ==
    IF setModelStatus(model, writeOk) = 200
    THEN {[key |-> "current_model", value |-> model]}
             \cup {row \in rows : row.key # "current_model"}
    ELSE rows

WorkerSetModel ==
    /\ impl = "worker"
    /\ \E model \in {NoModel} \cup Models, writeOk \in BOOLEAN :
         settings' = setModel(settings, model, writeOk)
    /\ UNCHANGED <<setupVars, clientVars>>
    /\ UNCHANGED <<impl, env, chat_sessions, sessions, reqs, uuids, posts,
                   issued>>

\* ============================================== the Express controller
SYSTEM_MESSAGE ==
    <<"You are a helpful AI assistant for a salon. Provide friendly, concise responses about salon services, hair care, and beauty advice.">>

\* processChat, lines 64-81: whether a new session is made for the token sent.
ExpressIsNewSession(map, sessionToken) == ~(~Falsy(sessionToken) /\ HasRow(map, sessionToken))

\* processChat, lines 92-104: the messages sent to OpenRouter.
FormattedMessages(messages) ==
    IF \E i \in 1..Len(messages) : messages[i].role = "system"
    THEN messages
    ELSE <<Turn("system", SYSTEM_MESSAGE)>> \o messages

\* processChat up to its await: validation, the session found or made, the
\* user turn pushed into it, the API key checked.
ExpressReceive(r) ==
    /\ impl = "express"
    /\ reqs[r].pc = "idle"
    /\ posts < MaxPosts
    /\ posts' = posts + 1
    /\ \E message \in MessageValues, sessionToken \in RequestIds :
         IF MessageRejectedExpress(message)
         THEN /\ reqs' = [reqs EXCEPT ![r] =
                             [IdleReq EXCEPT !.pc = "done", !.status = 400,
                                             !.message = message,
                                             !.requested = sessionToken]]
              /\ UNCHANGED <<sessions, uuids, issued>>
         ELSE LET currentSessionToken == ResolveSessionId(sessionToken, uuids)
                  isNewSession == ExpressIsNewSession(sessions, sessionToken)
                  messages == Append(IF isNewSession THEN <<>>
                                     ELSE SessionMessages(sessions, sessionToken),
                                     Turn("user", Trim(message.text)))
                  req == [IdleReq EXCEPT
                            !.message = message,
                            !.requested = sessionToken,
                            !.sessionId = currentSessionToken,
                            !.isNewSession = isNewSession,
                            !.chatHistory = FormattedMessages(messages),
                            !.existed = HasRow(sessions, currentSessionToken),
                            !.before = SessionMessages(sessions, currentSessionToken)]
              IN  /\ uuids' = IF Falsy(sessionToken) THEN uuids + 1 ELSE uuids
                  /\ sessions' = Upsert(sessions, currentSessionToken, messages)
                  /\ issued' = issued \cup {currentSessionToken}
                  /\ reqs' = [MarkRaced(currentSessionToken, r) EXCEPT ![r] =
                                 IF env.OPENROUTER_API_KEY
                                 THEN [req EXCEPT !.pc = "await"]
                                 ELSE [req EXCEPT !.pc = "done", !.status = 500]]
    /\ UNCHANGED <<setupVars, clientVars>>
    /\ UNCHANGED <<impl, env, chat_sessions, settings>>

\* What the OpenRouter call can do: answer with text, answer without content,
\* fail with an HTTP status, fail without one, or answer with a body the
\* handler cannot read (a TypeError, not an axios error).
OpenRouterOutcomes == {"text", "empty", "http-error", "network-error", "bad-body"}

\* processChat, lines 156-174: the status of the response after a failed call
\* (error.response?.status || 500; 429 stands for the provider's status).
ExpressFailureStatus(outcome) == IF outcome = "http-error" THEN 429 ELSE 500

\* processChat, line 136.
OrSorry(content) == IF content = EMPTY_TEXT THEN SORRY_REPLY ELSE content

\* processChat from its await on: the reply pushed into the session object
\* and 200, or an error status.
ExpressComplete(r) ==
    /\ impl = "express"
    /\ reqs[r].pc = "await"
    /\ \E outcome \in OpenRouterOutcomes :
         LET ok == outcome \in {"text", "empty"}
             call == Call("complete", OPENROUTER_MODEL, ok, <<>>)
             assistantResponse == OrSorry(CompletionText(outcome, OPENROUTER_MODEL))
             id == reqs[r].sessionId
         IN  /\ sessions' =
                   IF ok /\ ~reqs[r].detached
                   THEN Upsert(sessions, id,
                               Append(SessionMessages(sessions, id),
                                      Turn("assistant", assistantResponse)))
                   ELSE sessions
             /\ reqs' = [MarkRaced(id, r) EXCEPT
                           ![r] = [reqs[r] EXCEPT
                             !.pc = "done",
                             !.calls = <<call>>,
                             !.aiResponse = IF ok THEN assistantResponse ELSE EMPTY_TEXT,
                             !.status = IF ok THEN 200 ELSE ExpressFailureStatus(outcome)]]
    /\ UNCHANGED <<setupVars, clientVars>>
    /\ UNCHANGED <<impl, env, chat_sessions, settings, uuids, posts, issued>>

\* The router registers GET and DELETE as '/api/chat/:sessionId', and both
\* handlers read req.params.sessionToken: whatever id is in the path, the
\* handler's sessionToken is undefined.
routedSessionToken(id) == UNDEFINED_ID

\* getChatHistory (Express), given req.params.sessionToken.
expressGetChatHistory(map, sessionToken) ==
    IF Falsy(sessionToken)
    THEN [status |-> 400, sessionId |-> NO_ID, messages |-> <<>>]
    ELSE IF ~HasRow(map, sessionToken)
    THEN [status |-> 404, sessionId |-> NO_ID, messages |-> <<>>]
    ELSE [status |-> 200, sessionId |-> sessionToken,
          messages |-> RowOf(map, sessionToken).messages]

\* GET /api/chat/{id} changes nothing.
ExpressGetHistory ==
    /\ impl = "express"
    /\ \E id \in PathIds :
         expressGetChatHistory(sessions, routedSessionToken(id)).status
             \in {200, 400, 404}
    /\ UNCHANGED vars

\* clearChatSession (Express), given req.params.sessionToken: its status.
expressClearStatus(map, sessionToken) ==
    IF Falsy(sessionToken) THEN 400
    ELSE IF HasRow(map, sessionToken) THEN 200 ELSE 404

\* clearChatSession (Express): a new, empty session object replaces the old
\* one; handlers in flight keep the old one.
ExpressClearId(id) ==
    /\ impl = "express"
    /\ LET sessionToken == routedSessionToken(id)
           status == expressClearStatus(sessions, sessionToken)
       IN  /\ sessions' = IF status = 200 THEN Upsert(sessions, sessionToken, <<>>)
                          ELSE sessions
           /\ reqs' = IF status = 200
                      THEN [s \in DOMAIN reqs |->
                              IF reqs[s].sessionId = sessionToken /\ reqs[s].pc # "idle"
                              THEN [reqs[s] EXCEPT !.raced = TRUE,
                                                   !.detached = reqs[s].detached \/ s \in InFlight]
                              ELSE reqs[s]]
                      ELSE reqs
    /\ UNCHANGED <<setupVars, clientVars>>
    /\ UNCHANGED <<impl, env, chat_sessions, settings, uuids, posts, issued>>

\* DELETE /api/chat/{id}
ExpressClear == \E id \in PathIds : ExpressClearId(id)


\* ============================================ the vectorize-setup Worker
\* The two copies of the Worker: src/vectorize-setup/src/index.js and the one
\* in src/unnamed/part_013.
SetupImpls == {"setup/index.js", "setup/part_013"}

\* The names a service entry can carry: none, blanks only, a name.
ServiceNames == {<<>>, <<" ">>, <<"c">>}

RECURSIVE SeqsUpTo(_, _)
SeqsUpTo(S, n) ==
    IF n = 0 THEN {<<>>}
    ELSE LET shorter == SeqsUpTo(S, n - 1)
         IN  shorter \cup {Append(q, x) : q \in shorter, x \in S}

\* The bodies of POST /api/setup: services is an array of entries, or is not
\* an array at all.
SetupBodies ==
    {[isArray |-> FALSE, services |-> <<>>]}
        \cup {[isArray |-> TRUE, services |-> q] :
                q \in SeqsUpTo({[name |-> n] : n \in ServiceNames}, MaxServices)}

\* setupDatabase: Array.isArray(services) && services.length > 0.
ValidServices(body) == body.isArray /\ body.services # <<>>

\* setupDatabase: service.name?.trim() || ''.
ServiceName(service) == Trim(service.name)

\* setupDatabase: whether the vector of a service is stored.  AI.run must
\* return (a missing AI binding throws in index.js and is skipped in
\* part_013), SALON_VECTORIZE must be bound and its upsert must not throw.
VectorStored(bindings, e, upsertOk) ==
    bindings.AI /\ e # "throws" /\ bindings.SALON_VECTORIZE /\ upsertOk

\* setupDatabase: the embedded flag of a result.  index.js reports
\* !!embedding, which is set as soon as AI.run has returned; part_013 sets
\* the flag after the upsert.
Embedded(which, bindings, e, upsertOk) ==
    IF which = "setup/index.js" THEN bindings.AI /\ e # "throws"
    ELSE VectorStored(bindings, e, upsertOk)

\* setupDatabase, the body of the loop for one service: the row inserted,
\* the vector stored and the result pushed, for each outcome of the INSERT,
\* of AI.run and of the upsert.
ProcessService(which, bindings, id, service, insertOk, e, upsertOk) ==
    IF ServiceName(service) = <<>>
    THEN [rows |-> {}, vectors |-> {},
          result |-> [success |-> FALSE, id |-> NO_ID, embedded |-> FALSE]]
    ELSE IF ~insertOk
    THEN [rows |-> {}, vectors |-> {},
          result |-> [success |-> FALSE, id |-> NO_ID, embedded |-> FALSE]]
    ELSE [rows |-> {[id |-> id, name |-> ServiceName(service)]},
          vectors |-> IF VectorStored(bindings, e, upsertOk) THEN {id} ELSE {},
          result |-> [success |-> TRUE, id |-> id,
                      embedded |-> Embedded(which, bindings, e, upsertOk)]]

\* setupDatabase up to the loop: 400 for a body without services, else
\* DELETE FROM salon_services (500 when it throws).  The vectors are left
\* as they are: part_013 reads getStats and deletes nothing.
SetupReceive ==
    /\ impl \in SetupImpls
    /\ UNCHANGED clientVars
    /\ setup.pc = "idle"
    /\ setup.received < MaxSetups
    /\ \E body \in SetupBodies, deleteOk \in BOOLEAN :
         IF ~ValidServices(body)
         THEN /\ setup' = [setup EXCEPT !.pc = "done", !.status = 400,
                                        !.received = @ + 1]
              /\ UNCHANGED salon_services
         ELSE IF ~deleteOk
         THEN /\ setup' = [setup EXCEPT !.pc = "done", !.status = 500,
                                        !.received = @ + 1]
              /\ UNCHANGED salon_services
         ELSE /\ setup' = [setup EXCEPT !.pc = "loop", !.services = body.services,
                                        !.i = 1, !.received = @ + 1]
              /\ salon_services' = {}
    /\ UNCHANGED <<impl, env, chat_sessions, settings, sessions, reqs, uuids,
                   posts, issued, vector_index>>

\* setupDatabase: one turn of the loop.
SetupService ==
    /\ impl \in SetupImpls
    /\ UNCHANGED clientVars
    /\ setup.pc = "loop"
    /\ setup.i <= Len(setup.services)
    /\ \E insertOk \in BOOLEAN, e \in EmbedOutcomes, upsertOk \in BOOLEAN :
         LET did == ProcessService(impl, env, randomUUID(uuids),
                                   setup.services[setup.i], insertOk, e, upsertOk)
         IN  /\ salon_services' = salon_services \cup did.rows
             /\ vector_index' = vector_index \cup did.vectors
             /\ setup' = [setup EXCEPT !.i = @ + 1,
                                       !.results = Append(@, did.result)]
    /\ uuids' = uuids + 1
    /\ UNCHANGED <<impl, env, chat_sessions, settings, sessions, reqs, posts,
                   issued>>

\* setupDatabase: the loop is over, the results are returned with status 200.
SetupRespond ==
    /\ impl \in SetupImpls
    /\ UNCHANGED clientVars
    /\ setup.pc = "loop"
    /\ setup.i > Len(setup.services)
    /\ setup' = [setup EXCEPT !.pc = "done", !.status = 200]
    /\ UNCHANGED <<impl, env, chat_sessions, settings, sessions, reqs, uuids,
                   posts, issued, salon_services, vector_index>>

\* The response has been sent; the handler's locals are gone.
SetupIdle ==
    /\ impl \in SetupImpls
    /\ UNCHANGED clientVars
    /\ setup.pc = "done"
    /\ setup' = [IdleSetup EXCEPT !.received = setup.received]
    /\ UNCHANGED <<impl, env, chat_sessions, settings, sessions, reqs, uuids,
                   posts, issued, salon_services, vector_index>>


\* ================================================== the browser client
\* The two copies of CloudflareChatService:
\* src/packages/chat/src/services/cloudflare/chatService.ts and the one in
\* src/unnamed/part_005.
ClientImpls == {"client/packages", "client/part_005"}

\* Ids a server can answer with that the client did not make.
ServerIds == {<<"server", 1>>}

\* saveSession: localStorage.setItem of {sessionId, messages}; when it throws
\* the error is logged and the item stays as it was.
saveSession(cl, saveOk) ==
    IF saveOk
    THEN [cl EXCEPT !.storage = [sessionId |-> cl.sessionId, messages |-> cl.messages]]
    ELSE cl

\* Array.prototype.pop(): the array without its last element.
Pop(messages) ==
    IF messages = <<>> THEN <<>> ELSE SubSeq(messages, 1, Len(messages) - 1)

\* A clearSession that empties the messages and keeps the session id.
LocalClearKeepsId(which, cl, n) == [cl EXCEPT !.messages = <<>>]

\* clearSession after the DELETE: the messages are emptied and, in the
\* packages copy, a new session id is generated.
LocalClear(which, cl, n) ==
    IF which = "client/packages"
    THEN [cl EXCEPT !.messages = <<>>, !.sessionId = randomUUID(n)]
    ELSE [cl EXCEPT !.messages = <<>>]

\* The uuidv4() calls of LocalClear.
LocalClearIds(which) == IF which = "client/packages" THEN 1 ELSE 0

\* sendMessage up to its fetch: blank content throws; else the user message
\* is pushed and saved and the request is sent.  The packages copy makes a
\* session id first when it has none.
SendStart(c) ==
    /\ impl \in ClientImpls
    /\ pending[c].pc = "idle"
    /\ client.made < MaxCalls
    /\ \E content \in Strings, saveOk \in BOOLEAN, saveOk2 \in BOOLEAN :
         IF Trim(content) = <<>>
         THEN /\ pending' = [pending EXCEPT ![c] =
                               [IdleCall EXCEPT !.pc = "thrown", !.kind = "send"]]
              /\ client' = [client EXCEPT !.made = @ + 1]
              /\ UNCHANGED uuids
         ELSE LET userMessage == [id |-> randomUUID(uuids), role |-> "user",
                                  content |-> Trim(content)]
                  pushed == saveSession([client EXCEPT
                                           !.messages = Append(@, userMessage),
                                           !.made = @ + 1], saveOk)
                  generate == impl = "client/packages" /\ Falsy(pushed.sessionId)
              IN  /\ client' = IF generate
                               THEN saveSession([pushed EXCEPT
                                                   !.sessionId = randomUUID(uuids + 1)],
                                                saveOk2)
                               ELSE pushed
                  /\ uuids' = IF generate THEN uuids + 2 ELSE uuids + 1
                  /\ pending' = [pending EXCEPT ![c] =
                                   [IdleCall EXCEPT !.pc = "awaiting", !.kind = "send",
                                                    !.userId = userMessage.id]]
    /\ UNCHANGED <<impl, env, chat_sessions, settings, sessions, reqs, posts,
                   issued, setupVars>>

\* What the fetch of sendMessage can end in: it fails (it rejects, the
\* status is not ok, or the body is no JSON), or it answers with a session
\* id (none, the client's own, one of the server), isNewSession and a reply.
SendResponses ==
    {[ok |-> FALSE, sessionId |-> UNDEFINED_ID, isNewSession |-> FALSE,
      message |-> EMPTY_TEXT]}
        \cup {[ok |-> TRUE, sessionId |-> id, isNewSession |-> isNew, message |-> m] :
                id \in {UNDEFINED_ID} \cup ServerIds, isNew \in BOOLEAN,
                m \in {EMPTY_TEXT, Reply(DEFAULT_MODEL)}}

\* sendMessage, the catch: the last message is popped and the session saved.
SendFailed(cl, saveOk) == saveSession([cl EXCEPT !.messages = Pop(@)], saveOk)

\* sendMessage after a response: the session id is replaced when the server
\* says it is new (and saved at once in the packages copy), the assistant
\* message is pushed and the session saved.
SendSucceeded(which, cl, data, n, saveOk, saveOk2) ==
    LET replace == ~Falsy(data.sessionId) /\ (Falsy(cl.sessionId) \/ data.isNewSession)
        replaced == IF replace
                    THEN IF which = "client/packages"
                         THEN saveSession([cl EXCEPT !.sessionId = data.sessionId],
                                          saveOk2)
                         ELSE [cl EXCEPT !.sessionId = data.sessionId]
                    ELSE cl
        assistantMessage == [id |-> randomUUID(n), role |-> "assistant",
                             content |-> data.message]
    IN  saveSession([replaced EXCEPT !.messages = Append(@, assistantMessage)], saveOk)

\* sendMessage from the response on.
SendReturn(c) ==
    /\ impl \in ClientImpls
    /\ pending[c].pc = "awaiting" /\ pending[c].kind = "send"
    /\ \E data \in SendResponses, saveOk \in BOOLEAN, saveOk2 \in BOOLEAN :
         IF data.ok
         THEN /\ client' = SendSucceeded(impl, client, data, uuids, saveOk, saveOk2)
              /\ uuids' = uuids + 1
              /\ pending' = [pending EXCEPT ![c].pc = "returned"]
         ELSE /\ client' = SendFailed(client, saveOk)
              /\ UNCHANGED uuids
              /\ pending' = [pending EXCEPT ![c].pc = "thrown"]
    /\ UNCHANGED <<impl, env, chat_sessions, settings, sessions, reqs, posts,
                   issued, setupVars>>

\* clearSession up to its fetch, for a call that sends the DELETE.
ClearStart(c) ==
    /\ impl \in ClientImpls
    /\ pending[c].pc = "idle"
    /\ client.made < MaxCalls
    /\ ~Falsy(client.sessionId)
    /\ client' = [client EXCEPT !.made = @ + 1]
    /\ pending' = [pending EXCEPT ![c] =
                     [IdleCall EXCEPT !.pc = "awaiting", !.kind = "clear",
                                      !.was = client.sessionId]]
    /\ UNCHANGED <<impl, env, chat_sessions, settings, sessions, reqs, uuids,
                   posts, issued, setupVars>>

\* How the DELETE of clearSession can end: any response (its status is not
\* looked at), or the fetch rejects.  "skipped" is a call that sends none.
DeleteOutcomes == {"ok", "error", "rejected"}

\* clearSession from the response on, or the whole of a call that sends no
\* DELETE (callApi false, or no session id).
ClearReturn(c) ==
    /\ impl \in ClientImpls
    /\ \E deleted \in DeleteOutcomes \cup {"skipped"}, saveOk \in BOOLEAN :
         /\ IF deleted = "skipped"
            THEN pending[c].pc = "idle" /\ client.made < MaxCalls
            ELSE pending[c].pc = "awaiting" /\ pending[c].kind = "clear"
         /\ client' = saveSession(
                        [LocalClear(impl, client, uuids) EXCEPT
                           !.made = IF deleted = "skipped" THEN @ + 1 ELSE @],
                        saveOk)
         /\ uuids' = uuids + LocalClearIds(impl)
         /\ pending' = [pending EXCEPT ![c] =
                          [IdleCall EXCEPT
                             !.pc = "returned", !.kind = "clear",
                             !.was = IF deleted = "skipped" THEN client.sessionId
                                     ELSE pending[c].was,
                             !.deleted = deleted, !.saved = saveOk]]
    /\ UNCHANGED <<impl, env, chat_sessions, settings, sessions, reqs, posts,
                   issued, setupVars>>

\* The caller has the result of the call; the slot is free again.
CallOver(c) ==
    /\ impl \in ClientImpls
    /\ pending[c].pc \in {"returned", "thrown"}
    /\ pending' = [pending EXCEPT ![c] = IdleCall]
    /\ UNCHANGED <<impl, env, chat_sessions, settings, sessions, reqs, uuids,
                   posts, issued, setupVars, client>>


\* ------------------------------------------------------ specification
Next ==
    \/ \E r \in Slots : WorkerReceive(r)
    \/ \E r \in Slots : WorkerRead(r)
    \/ \E r \in Slots : WorkerSearch(r)
    \/ \E r \in Slots : WorkerGenerate(r)
    \/ \E r \in Slots : WorkerWrite(r)
    \/ \E r \in Slots : Respond(r)
    \/ WorkerGetHistory
    \/ WorkerClear
    \/ WorkerGetModel
    \/ WorkerSetModel
    \/ \E r \in Slots : ExpressReceive(r)
    \/ \E r \in Slots : ExpressComplete(r)
    \/ ExpressGetHistory
    \/ ExpressClear

Spec == Init /\ [][Next]_vars

\* The servers when every call a handler awaits returns or fails in the end:
\* a handler that can take its next step takes it.
FairSpec ==
    /\ Init /\ [][Next]_vars
    /\ \A r \in Slots :
         /\ WF_vars(WorkerRead(r)) /\ WF_vars(WorkerSearch(r))
         /\ WF_vars(WorkerGenerate(r)) /\ WF_vars(WorkerWrite(r))
         /\ WF_vars(ExpressComplete(r))

\* Two POST handlers of the Worker on a deployment that already stores one
\* session, with DELETE requests in between their steps.
OverlapInit ==
    /\ impl = "worker"
    /\ env = [development |-> FALSE, OPENAI_API_KEY |-> FALSE,
              OPENROUTER_API_KEY |-> FALSE]
    /\ chat_sessions = {[id |-> randomUUID(0), messages |-> JSONstringify(EarlierWorker)]}
    /\ settings = {}
    /\ sessions = {}
    /\ reqs = [r \in OverlapSlots |-> IdleReq]
    /\ uuids = 1
    /\ posts = 0
    /\ issued = {randomUUID(0)}
    /\ salon_services = {}
    /\ vector_index = {}
    /\ setup = IdleSetup
    /\ client = NoClient
    /\ pending = [c \in CallSlots |-> IdleCall]

OverlapNext ==
    \/ \E r \in OverlapSlots : WorkerReceive(r)
    \/ \E r \in OverlapSlots : WorkerRead(r)
    \/ \E r \in OverlapSlots : WorkerAnswer(r)
    \/ \E r \in OverlapSlots : WorkerWrite(r)
    \/ \E r \in OverlapSlots : Respond(r)
    \/ WorkerClear

OverlapSpec == OverlapInit /\ [][OverlapNext]_vars

\* The client after its constructor, with no item in localStorage before:
\* the packages copy has made a session id and saved it, the other has none.
ClientInit ==
    /\ impl \in ClientImpls
    /\ env = [development |-> FALSE, OPENAI_API_KEY |-> FALSE,
              OPENROUTER_API_KEY |-> FALSE]
    /\ chat_sessions = {}
    /\ settings = {}
    /\ sessions = {}
    /\ reqs = [r \in Slots |-> IdleReq]
    /\ posts = 0
    /\ issued = {}
    /\ salon_services = {}
    /\ vector_index = {}
    /\ setup = IdleSetup
    /\ pending = [c \in CallSlots |-> IdleCall]
    /\ IF impl = "client/packages"
       THEN /\ uuids = 1
            /\ \E saveOk \in BOOLEAN :
                 client = saveSession([NoClient EXCEPT !.sessionId = randomUUID(0)],
                                      saveOk)
       ELSE /\ uuids = 0
            /\ client = [NoClient EXCEPT !.sessionId = NULL_ID]

ClientNext ==
    \/ \E c \in CallSlots : SendStart(c)
    \/ \E c \in CallSlots : SendReturn(c)
    \/ \E c \in CallSlots : ClearStart(c)
    \/ \E c \in CallSlots : ClearReturn(c)
    \/ \E c \in CallSlots : CallOver(c)

ClientSpec == ClientInit /\ [][ClientNext]_vars

\* The vectorize-setup Worker on its own: an empty catalog and index, and
\* each of its bindings present or not.
SetupInit ==
    /\ impl \in SetupImpls
    /\ env \in [AI : BOOLEAN, SALON_VECTORIZE : BOOLEAN]
    /\ chat_sessions = {}
    /\ settings = {}
    /\ sessions = {}
    /\ reqs = [r \in Slots |-> IdleReq]
    /\ uuids = 0
    /\ posts = 0
    /\ issued = {}
    /\ salon_services = {}
    /\ vector_index = {}
    /\ setup = IdleSetup
    /\ client = NoClient
    /\ pending = [c \in CallSlots |-> IdleCall]

SetupNext ==
    \/ SetupReceive
    \/ SetupService
    \/ SetupRespond
    \/ SetupIdle

SetupSpec == SetupInit /\ [][SetupNext]_vars

\* ============================================================ properties
\* The handler in slot r; its fields are read once pc says they are set.
Req(r) == reqs[r]

\* The last element of a sequence is x.
EndsWith(seq, x) == seq # <<>> /\ seq[Len(seq)] = x

\* C1: every POST /chat whose message is a non-empty string is answered 200
\* with a non-empty reply, whatever the embedding call, the vector query, the
\* catalog lookup and the completion call(s) did.  Stated for messages that
\* are not blank and, for the Express controller, with the API key
\* configured.
C1_NonEmptyMessageAnswered200 ==
    \A r \in Slots :
        (/\ Req(r).pc = "done"
         /\ Req(r).message.type = "string"
         /\ Trim(Req(r).message.text) # <<>>
         /\ impl = "express" => env.OPENROUTER_API_KEY)
        => Req(r).status = 200 /\ Req(r).aiResponse # EMPTY_TEXT

\* C2: when the completion provider is first invoked for a request, the
\* stored transcript of its session already ends with the request's user
\* turn.  Stated for a request whose session no other handler has written
\* since it came.
C2_UserTurnStoredBeforeGeneration ==
    \A r \in Slots :
        /\ (impl = "worker" /\ Req(r).pc = "generate" /\ ~Req(r).raced)
           => EndsWith(StoredTurns(chat_sessions, Req(r).sessionId),
                       Turn("user", Req(r).message.text))
        /\ (impl = "express" /\ Req(r).pc = "await" /\ ~Req(r).raced)
           => EndsWith(SessionMessages(sessions, Req(r).sessionId),
                       Turn("user", Trim(Req(r).message.text)))

\* C3: a POST /chat with the sessionId of a stored session, with no other
\* request on it, is answered isNewSession=false and the same sessionId, and
\* a GET /chat/{id} after it returns the turns stored before, unchanged and
\* in order, followed by the user turn and the assistant turn.  Stated so
\* that the two new turns may be missing, as they are when the row could not
\* be written; the turns stored before may not.
C3_ExistingSessionContinues ==
    \A r \in Slots :
        (/\ impl = "worker"
         /\ Req(r).pc = "done" /\ Req(r).status = 200
         /\ Req(r).existed /\ ~Req(r).raced)
        => /\ Req(r).isNewSession = FALSE
           /\ Req(r).sessionId = Req(r).requested
           /\ LET got == getChatHistory(chat_sessions, Req(r).sessionId, TRUE)
              IN  /\ got.status = 200
                  /\ got.messages \in
                       {Req(r).before,
                        Req(r).before \o <<Turn("user", Req(r).message.text),
                                           Turn("assistant", Req(r).aiResponse)>>}

\* C4: a POST /chat sent without a sessionId (absent, null or "") is answered
\* isNewSession=true and a sessionId that differs from every sessionId
\* returned or stored before.  Worker: the step that sends the 200.
\* Express: the step that makes the session, and the flag it answers with.
C4_NoSessionIdGetsFreshId ==
    [][\A r \in Slots :
         /\ (/\ impl = "worker"
             /\ Req(r).pc = "write" /\ reqs'[r].pc = "done"
             /\ Falsy(reqs'[r].requested))
            => /\ reqs'[r].status = 200
               /\ reqs'[r].isNewSession
               /\ reqs'[r].sessionId \notin AbsentIds \cup issued
               /\ ~HasRow(chat_sessions, reqs'[r].sessionId)
         /\ (/\ impl = "express"
             /\ Req(r).pc = "idle" /\ reqs'[r].pc \in {"await", "done"}
             /\ reqs'[r].status # 400
             /\ Falsy(reqs'[r].requested))
            => /\ reqs'[r].isNewSession
               /\ reqs'[r].sessionId \notin AbsentIds \cup issued
               /\ ~HasRow(sessions, reqs'[r].sessionId)
         /\ (impl = "express" /\ Req(r).pc = "await" /\ reqs'[r].pc = "done")
            => /\ reqs'[r].isNewSession = Req(r).isNewSession
               /\ reqs'[r].sessionId = Req(r).sessionId
      ]_vars

\* A POST without a sessionId has been answered 200 with a new id while
\* another id had been issued before.
C4_Witness ==
    \E r \in Slots :
        /\ Req(r).pc = "done" /\ Req(r).status = 200
        /\ Falsy(Req(r).requested)
        /\ Req(r).isNewSession
        /\ \E id \in issued : id # Req(r).sessionId

\* C5: a POST /chat with a sessionId that is not in the store runs under a
\* fresh id, not the supplied one, and is answered isNewSession=true;
\* isNewSession is true exactly when a fresh id was allocated.
C5_UnknownIdIsReplaced ==
    \A r \in Slots :
        (Req(r).pc = "done" /\ Req(r).status = 200)
        => /\ (~Falsy(Req(r).requested) /\ ~Req(r).existed)
              => Req(r).sessionId # Req(r).requested /\ Req(r).isNewSession
           /\ Req(r).isNewSession <=> Req(r).sessionId # Req(r).requested

\* The Express store after clearChatSession, given req.params.sessionToken.
expressCleared(map, sessionToken) ==
    IF expressClearStatus(map, sessionToken) = 200
    THEN Upsert(map, sessionToken, <<>>) ELSE map

\* C6: after DELETE /chat/{id} has completed, a GET /chat/{id} with no POST
\* on that id in between returns 404 or an empty transcript, never a message
\* stored before the delete.  Stated for a GET that follows the DELETE at
\* once, in any state, the store calls of both succeeding.
C6_DeleteThenGet ==
    \A id \in PathIds :
        /\ impl = "worker" =>
             LET got == getChatHistory(DeleteRow(chat_sessions, id), id, TRUE)
             IN  got.status = 404 \/ (got.status = 200 /\ got.messages = <<>>)
        /\ impl = "express" =>
             LET sessionToken == routedSessionToken(id)
                 got == expressGetChatHistory(expressCleared(sessions, sessionToken),
                                              sessionToken)
             IN  got.status = 404 \/ (got.status = 200 /\ got.messages = <<>>)

\* C7: DELETE /chat/{id} returns 200 whether or not the session exists, and
\* repeating it gives the same result and the same store.  Stated for a
\* DELETE whose store call does not throw.
C7_ClearIdempotentNeverNotFound ==
    \A id \in PathIds :
        /\ impl = "worker" =>
             /\ clearChatSessionStatus(TRUE) = 200
             /\ DeleteRow(DeleteRow(chat_sessions, id), id) = DeleteRow(chat_sessions, id)
        /\ impl = "express" =>
             LET sessionToken == routedSessionToken(id)
                 once == expressCleared(sessions, sessionToken)
             IN  /\ expressClearStatus(sessions, sessionToken) = 200
                 /\ expressClearStatus(once, sessionToken) = 200
                 /\ expressCleared(once, sessionToken) = once

\* C8: when the completion call fails for a model other than the default
\* one, the provider is invoked again with the default model, and when that
\* call succeeds the request is answered 200 with its reply.
C8_RetryWithDefaultModel ==
    \A r \in Slots :
        (/\ impl = "worker"
         /\ Req(r).pc \in {"write", "done"}
         /\ Req(r).calls # <<>>
         /\ ~Req(r).calls[1].ok
         /\ Req(r).calls[1].model # DEFAULT_MODEL)
        => /\ Len(Req(r).calls) = 2
           /\ Req(r).calls[2].model = DEFAULT_MODEL
           /\ Req(r).calls[2].ok
                => Req(r).aiResponse \in {Reply(DEFAULT_MODEL), GREETING_REPLY}
           /\ Req(r).pc = "done" => Req(r).status = 200

\* C9: after a successful PUT /model with X, every later POST /chat without
\* a model override invokes the completion provider with X first, until
\* another PUT /model succeeds.  Stated so that the default model is allowed
\* too, which is what the code uses when it cannot read the setting.
C9_StoredModelIsFirstAttempt ==
    [][\A r \in Slots :
         (/\ impl = "worker"
          /\ Req(r).pc = "generate" /\ reqs'[r].pc = "write"
          /\ reqs'[r].model = NoModel
          /\ SettingValue(settings) # NoModel)
         => reqs'[r].calls[1].model \in {SettingValue(settings), DEFAULT_MODEL}
      ]_vars

\* The entries of the context block of a prompt.
ContextOf(messages) == {messages[1].content[i] : i \in 1..Len(messages[1].content)}

IsPrefix(s, t) == Len(s) <= Len(t) /\ SubSeq(t, 1, Len(s)) = s

\* C11: within a session turns are append-only except for an explicit clear:
\* whatever failed during a POST /chat, the session read included, the
\* transcript stored after it has the transcript stored before it as a
\* prefix.  Stated for a request whose session no DELETE and no other POST
\* has written since it came.
C11_PostKeepsStoredTurns ==
    \A r \in Slots :
        (Req(r).pc = "done" /\ Req(r).sessionId # NO_ID /\ ~Req(r).raced)
        => /\ impl = "worker" =>
                IsPrefix(Req(r).before,
                         StoredTurns(chat_sessions, Req(r).sessionId))
           /\ impl = "express" =>
                IsPrefix(Req(r).before,
                         SessionMessages(sessions, Req(r).sessionId))

\* The turns a finished POST /chat of the Worker appended.
Appended(r) ==
    <<Turn("user", Req(r).message.text), Turn("assistant", Req(r).aiResponse)>>

\* The messages GET /chat/{id} of the Worker returns when its read succeeds.
Transcript(id) == getChatHistory(chat_sessions, id, TRUE).messages

\* C12: after N turns have been appended to a session by sequential
\* exchanges with no clear in between, GET /chat/{id} returns exactly those
\* N turns, in order, with the role and content they were appended with.
\* The turns are those stored when the last exchange came followed by the
\* ones it appended; an exchange whose final write failed has appended none.
\* Stated for the Worker.
C12_TranscriptRoundTrip ==
    \A r \in Slots :
        (/\ impl = "worker"
         /\ Req(r).pc = "done" /\ Req(r).status = 200 /\ ~Req(r).raced)
        => Transcript(Req(r).sessionId) \in
             {Req(r).before \o Appended(r), Req(r).before}

\* C13: when the embedding call fails, the pipeline goes on to prompt
\* assembly with an empty retrieval set: no catalog record is in the context
\* block of that request and the context-free preamble is used.
C13_EmbeddingFailureMeansNoContext ==
    \A r \in Slots :
        (/\ impl = "worker" /\ Req(r).pc = "generate"
         /\ Req(r).calls[1].svc = "embed" /\ ~Req(r).calls[1].ok)
        => /\ Req(r).relevantServices = {}
           /\ PromptMessages(Req(r).relevantServices, Req(r).chatHistory)
                = PromptMessages({}, Req(r).chatHistory)

\* C14: a failure to persist the transcript at the end of POST /chat is
\* swallowed: the request still returns 200 with the generated reply and the
\* sessionId it ran under.  A finished request whose transcript is not what
\* the store holds, with no other handler having written the session, is one
\* whose upsert failed.
C14_PersistFailureSwallowed ==
    \A r \in Slots :
        (/\ impl = "worker" /\ Req(r).pc = "done"
         /\ ~MessageRejected(Req(r).message)
         /\ ~Req(r).raced
         /\ StoredTurns(chat_sessions, Req(r).sessionId) # Req(r).chatHistory)
        => /\ Req(r).status = 200
           /\ Req(r).aiResponse # EMPTY_TEXT
           /\ EndsWith(Req(r).chatHistory, Turn("assistant", Req(r).aiResponse))
           /\ IF Falsy(Req(r).requested)
              THEN Req(r).sessionId \in {randomUUID(n) : n \in 0..uuids}
              ELSE Req(r).sessionId = Req(r).requested

\* A request has been answered 200 with a reply while its upsert failed: the
\* store still holds what it held when the request came.
C14_Witness ==
    \E r \in Slots :
        /\ impl = "worker" /\ Req(r).pc = "done" /\ Req(r).status = 200
        /\ ~Req(r).raced
        /\ Req(r).aiResponse # EMPTY_TEXT
        /\ StoredTurns(chat_sessions, Req(r).sessionId) = Req(r).before
        /\ StoredTurns(chat_sessions, Req(r).sessionId) # Req(r).chatHistory

\* A message that is missing or blank (empty or whitespace-only).
Blank(m) == m.type = "undefined" \/ (m.type = "string" /\ Trim(m.text) = <<>>)

\* C15: POST /chat with a missing or blank message is rejected with 400 and
\* no reply is generated: such a request never gets past validation, and it
\* ends with status 400, no reply and no call made.
C15_BlankMessageRejected ==
    \A r \in Slots :
        (Req(r).pc # "idle" /\ Blank(Req(r).message))
        => /\ Req(r).pc = "done"
           /\ Req(r).status = 400
           /\ Req(r).aiResponse = EMPTY_TEXT
           /\ Req(r).calls = <<>>

\* C16: GET /chat/{sessionId} returns 404 for an id with no stored session,
\* and 200 with the session's id and its stored turns for an id with one.
\* Stated for a GET whose store read succeeds.
C16_GetHistoryStatus ==
    \A id \in PathIds :
        /\ impl = "worker" =>
             LET got == getChatHistory(chat_sessions, id, TRUE)
             IN  IF HasRow(chat_sessions, id)
                 THEN /\ got.status = 200 /\ got.sessionId = id
                      /\ got.messages = StoredTurns(chat_sessions, id)
                 ELSE got.status = 404
        /\ impl = "express" =>
             LET got == expressGetChatHistory(sessions, routedSessionToken(id))
             IN  IF HasRow(sessions, id)
                 THEN /\ got.status = 200 /\ got.sessionId = id
                      /\ got.messages = SessionMessages(sessions, id)
                 ELSE got.status = 404

\* C17: while no PUT /model has succeeded, GET /model answers the default
\* model, it answers the default model too when its settings read fails, and
\* a POST /chat without a model override invokes the completion provider with
\* the default model first.
C17_DefaultModelWhenUnset ==
    /\ [](impl = "worker" =>
            /\ getCurrentModel(settings, FALSE) = DEFAULT_MODEL
            /\ SettingValue(settings) = NoModel
                 => getCurrentModel(settings, TRUE) = DEFAULT_MODEL)
    /\ [][\A r \in Slots :
            (/\ impl = "worker"
             /\ Req(r).pc = "generate" /\ reqs'[r].pc = "write"
             /\ reqs'[r].model = NoModel
             /\ SettingValue(settings) = NoModel)
            => reqs'[r].calls[1].model = DEFAULT_MODEL
         ]_vars

\* C18: when an ingestion run has completed, every row it inserted into the
\* catalog has a vector in the index under the same id (the index keeps one
\* vector per id).  Stated for a Worker with both its AI and its Vectorize
\* binding.
C18_EveryRowHasVector ==
    (/\ impl \in SetupImpls /\ env.AI /\ env.SALON_VECTORIZE
     /\ setup.pc = "done" /\ setup.status = 200)
        => \A row \in salon_services : row.id \in vector_index

\* C19: a POST /chat invokes the completion provider at most twice; a second
\* invocation follows a failed first one only, it uses the default model,
\* and it is the last: none follows a failed second invocation, nor a failed
\* first one that already used the default model.
C19_AtMostOneRetry ==
    \A r \in Slots :
        (impl = "worker" /\ Req(r).pc \in {"write", "done"})
        => LET calls == Req(r).calls
           IN  /\ Len(calls) <= 2
               /\ \A i \in 1..Len(calls) : calls[i].svc = "complete"
               /\ Len(calls) = 2
                    => /\ ~calls[1].ok
                       /\ calls[1].model # DEFAULT_MODEL
                       /\ calls[2].model = DEFAULT_MODEL

\* The second invocation of a request has failed and nothing followed it,
\* and one whose only invocation, with the default model, failed.
C19_Witness ==
    \E r \in Slots :
        /\ impl = "worker" /\ Req(r).pc = "done"
        /\ \/ Len(Req(r).calls) = 2 /\ ~Req(r).calls[2].ok
           \/ /\ Len(Req(r).calls) = 1 /\ ~Req(r).calls[1].ok
              /\ Req(r).calls[1].model = DEFAULT_MODEL

\* The calls of a sequence that went to one service.
CallsTo(calls, svc) == {i \in 1..Len(calls) : calls[i].svc = svc}

\* C20: within one POST /chat the embedding provider is called at most once
\* and the vector index is queried at most once, whether or not they fail.
C20_NoRetrievalRetry ==
    \A r \in Slots :
        (impl = "worker" /\ Req(r).pc = "generate")
        => /\ Cardinality(CallsTo(Req(r).calls, "embed")) = 1
           /\ Cardinality(CallsTo(Req(r).calls, "vectorize")) <= 1

\* The search of a request is over after the embedding call failed and the
\* vector query that followed failed too.
C20_Witness ==
    \E r \in Slots :
        /\ impl = "worker" /\ Req(r).pc = "generate"
        /\ Len(Req(r).calls) = 2
        /\ ~Req(r).calls[1].ok /\ Req(r).calls[1].svc = "embed"
        /\ ~Req(r).calls[2].ok /\ Req(r).calls[2].svc = "vectorize"

\* The roles of the turns of a sequence.
Roles(turns) == {turns[i].role : i \in 1..Len(turns)}

\* C21: the message list handed to the completion provider is one system
\* turn followed by the turns stored for the session when the request came,
\* in order, and then the request's own user turn; no stored transcript has
\* a turn of another role than user and assistant.  The first half is stated
\* for a request whose session no DELETE has cleared since it came.
C21_PromptIsSystemThenHistory ==
    /\ \A r \in Slots :
         (impl = "worker" /\ Req(r).pc = "write" /\ ~Req(r).raced)
         => \A i \in 1..Len(Req(r).calls) :
              LET messages == Req(r).calls[i].arg
              IN  /\ messages[1].role = "system"
                  /\ "system" \notin Roles(Tail(messages))
                  /\ Tail(messages) =
                       Req(r).before \o <<Turn("user", Req(r).message.text)>>
    /\ \A row \in chat_sessions :
         Roles(JSONparse(row.messages)) \subseteq {"user", "assistant"}

\* C22: when every completion attempt of a request has failed, the reply in
\* the response is the fixed apology, and the session's turns end with the
\* request's user turn followed by an assistant turn with that apology.
C22_AllFailedGivesApology ==
    \A r \in Slots :
        (/\ impl = "worker" /\ Req(r).pc = "done" /\ Req(r).status = 200
         /\ \A i \in 1..Len(Req(r).calls) : ~Req(r).calls[i].ok)
        => /\ Req(r).aiResponse = APOLOGY_REPLY
           /\ Len(Req(r).chatHistory) >= 2
           /\ SubSeq(Req(r).chatHistory, Len(Req(r).chatHistory) - 1,
                     Len(Req(r).chatHistory))
                = <<Turn("user", Req(r).message.text),
                    Turn("assistant", APOLOGY_REPLY)>>

\* The elements of a sequence.
Range(seq) == {seq[i] : i \in 1..Len(seq)}

\* C23: once two POST /chat requests on the same stored session have both
\* completed, the stored transcript holds the turns stored before them and
\* then the user and assistant turns of both, in some interleaving.  Stated
\* for two requests that both read the session before either wrote it, with
\* the row still there.
C23_OverlappingPostsKeepBoth ==
    \A r1, r2 \in DOMAIN reqs :
        (/\ r1 # r2
         /\ Req(r1).pc = "done" /\ Req(r1).status = 200
         /\ Req(r2).pc = "done" /\ Req(r2).status = 200
         /\ Req(r1).sessionId = Req(r2).sessionId
         /\ Req(r1).before # <<>> /\ Req(r1).before = Req(r2).before
         /\ Req(r1).chatHistory = Req(r1).before \o Appended(r1)
         /\ Req(r2).chatHistory = Req(r2).before \o Appended(r2)
         /\ HasRow(chat_sessions, Req(r1).sessionId))
        => LET stored == StoredTurns(chat_sessions, Req(r1).sessionId)
           IN  /\ IsPrefix(Req(r1).before, stored)
               /\ Len(stored) = Len(Req(r1).before) + 4
               /\ Range(Appended(r1)) \cup Range(Appended(r2))
                    \subseteq Range(SubSeq(stored, Len(Req(r1).before) + 1,
                                           Len(stored)))

\* C24: when a DELETE /chat/{id} is processed after a POST /chat on the same
\* id has read the stored turns and before it writes them back, the
\* transcript stored once both have completed holds the turns of the new
\* exchange only, none of those stored before the DELETE.
C24_ClearDuringPostIsKept ==
    \A r \in Slots :
        (/\ impl = "worker"
         /\ Req(r).pc = "done" /\ Req(r).status = 200 /\ Req(r).raced
         /\ Req(r).before # <<>>
         /\ Req(r).chatHistory = Req(r).before \o Appended(r)
         /\ HasRow(chat_sessions, Req(r).sessionId))
        => StoredTurns(chat_sessions, Req(r).sessionId) = Appended(r)

\* C25: no step of a POST /chat changes the stored active model, so that
\* GET /model answers the same before and after it, and a request that
\* carries a model override invokes the completion provider with that model
\* first.
C25_PostLeavesActiveModel ==
    [][impl = "worker" /\ reqs' # reqs
         => /\ settings' = settings
            /\ getCurrentModel(settings', TRUE) = getCurrentModel(settings, TRUE)
            /\ \A r \in Slots :
                 (/\ Req(r).pc = "generate" /\ reqs'[r].pc = "write"
                  /\ reqs'[r].model # NoModel)
                 => reqs'[r].calls[1].model = reqs'[r].model
      ]_vars

\* C26: a POST /chat that follows a DELETE /chat/{id} with the same id runs
\* under that id and starts from no turns, so that the transcript after it
\* is its user turn followed by its assistant turn (or nothing, when its
\* write failed).  The first two conjuncts take the DELETE in any state and
\* give what the POST would start from; the last one is about a POST of the
\* Worker that found no row for the id it was sent.
C26_PostAfterClearStartsEmpty ==
    /\ \A id \in PathIds :
         /\ impl = "worker" =>
              /\ ResolveSessionId(id, uuids) = id
              /\ ReadHistory(DeleteRow(chat_sessions, id), id, TRUE) = <<>>
         /\ impl = "express" =>
              SessionMessages(expressCleared(sessions, routedSessionToken(id)), id)
                  = <<>>
    /\ \A r \in Slots :
         (/\ impl = "worker"
          /\ Req(r).pc = "done" /\ Req(r).status = 200
          /\ ~Req(r).existed /\ ~Req(r).raced /\ ~Falsy(Req(r).requested))
         => /\ Req(r).sessionId = Req(r).requested
            /\ StoredTurns(chat_sessions, Req(r).sessionId) \in {Appended(r), <<>>}

\* C23, as amended: once two POST /chat requests on the same session have
\* both completed, the stored transcript, if there is one, is the one that
\* one of them wrote: the turns that request had read, then its user turn
\* and its assistant turn (the last write wins, and the exchange of the other
\* request may be missing); or it is the transcript stored when one of them
\* came, if no write came after.
C23_LastWriteWins ==
    \A r1, r2 \in DOMAIN reqs :
        (/\ r1 # r2
         /\ Req(r1).pc = "done" /\ Req(r1).status = 200
         /\ Req(r2).pc = "done" /\ Req(r2).status = 200
         /\ Req(r1).sessionId = Req(r2).sessionId
         /\ HasRow(chat_sessions, Req(r1).sessionId))
        => StoredTurns(chat_sessions, Req(r1).sessionId)
             \in {Req(r1).chatHistory, Req(r2).chatHistory,
                  Req(r1).before, Req(r2).before}

\* Two requests on a stored session have both read it before either wrote
\* it, both have completed, and the row holds the exchange of one of them.
C23_Witness ==
    \E r1, r2 \in DOMAIN reqs :
        /\ r1 # r2
        /\ Req(r1).pc = "done" /\ Req(r1).status = 200
        /\ Req(r2).pc = "done" /\ Req(r2).status = 200
        /\ Req(r1).sessionId = Req(r2).sessionId
        /\ Req(r1).before # <<>> /\ Req(r1).before = Req(r2).before
        /\ Req(r1).chatHistory = Req(r1).before \o Appended(r1)
        /\ Req(r2).chatHistory = Req(r2).before \o Appended(r2)
        /\ Appended(r1) # Appended(r2)
        /\ StoredTurns(chat_sessions, Req(r1).sessionId) = Req(r2).chatHistory

\* The transcript without the message of the given id.
Without(messages, id) == SelectSeq(messages, LAMBDA m : m.id # id)

\* C27: in the client, for any interleaving of sendMessage calls, a call that
\* fails removes from the local transcript its own user message and nothing
\* else, and a save that succeeds stores that transcript: the transcript is
\* what it would be had the failing call never been made.
C27_FailedSendRemovesOwnMessage ==
    [][\A c \in CallSlots :
         (/\ pending[c].pc = "awaiting" /\ pending[c].kind = "send"
          /\ pending'[c].pc = "thrown")
         => /\ client'.messages = Without(client.messages, pending[c].userId)
            /\ client'.storage # client.storage
                 => client'.storage.messages
                      = Without(client.messages, pending[c].userId)]_vars

C29_NoStaleVectors ==
    (/\ impl \in SetupImpls
     /\ setup.pc = "done" /\ setup.status = 200
     /\ Cardinality(salon_services) = Len(setup.services))
        => \A id \in vector_index : \E row \in salon_services : row.id = id

\* C30: in the Worker, when every call a handler awaits returns or fails in
\* the end, every POST /api/chat whose handler is running reaches its
\* response, and a response is a 200, a 400 or a 500.
C30_PostReachesResponse ==
    /\ [](\A r \in Slots :
            (impl = "worker" /\ Req(r).pc = "done") => Req(r).status \in {200, 400, 500})
    /\ \A r \in Slots :
         (impl = "worker" /\ Req(r).pc \notin {"idle", "done"})
             ~> (Req(r).pc = "done" /\ Req(r).status \in {200, 400, 500})

\* A Worker request has its response although both completions its handler
\* called, the chosen model and the default, had failed.
C30_Witness ==
    \E r \in Slots :
        /\ impl = "worker" /\ Req(r).pc = "done" /\ Req(r).status = 200
        /\ ~env.OPENAI_API_KEY
        /\ Cardinality(CallsTo(Req(r).calls, "complete")) = 2
        /\ \A i \in 1..Len(Req(r).calls) : ~Req(r).calls[i].ok

====
